---- MODULE Spec2Model ----
(***************************************************************************)
(* State-machine model of the two Temporal workflows of the repository:    *)
(*   InfraProvisioningWorkflow (src/infra_workflow.py) and                 *)
(*   CICDPipelineWorkflow      (src/cicd_workflow.py).                     *)
(* One behaviour follows ONE workflow instance; the variable `workflow`    *)
(* says which class was instantiated (instances share no state).  Every    *)
(* action is one resumption of the workflow coroutine: the code between    *)
(* two awaits, or a signal handler.  Activities are external: an attempt   *)
(* succeeds or fails, failed attempts are retried per the RetryPolicy the  *)
(* call site attaches, and a failure that is out of retries (or is not     *)
(* retryable) is raised at the await.                                      *)
(***************************************************************************)
EXTENDS Integers, Sequences, FiniteSets, TLC

VARIABLES
    workflow,          \* which workflow class this instance is
    \* ---- InfraProvisioningWorkflow
    infra_status,      \* self._status
    infra_output,      \* self._output
    infra_applied,     \* self._applied
    infra_input,       \* run()'s parameter `input`
    infra_plan,        \* run()'s local `plan`
    infra_exc,         \* the exception `e` bound by `except Exception as e`
    infra_pc,          \* where run() is suspended
    infra_attempt,     \* attempt number of the activity awaited
    infra_inflight,    \* activities scheduled and not yet finished
    infra_log,         \* history: activities invoked / finished, in order
    infra_trace,       \* history: the values assigned to self._status
    infra_result,      \* what the caller of run() receives
    \* ---- CICDPipelineWorkflow
    cicd_status,       \* self._status
    cicd_result,       \* self._result
    redeploy_requested,\* self._redeploy_requested
    next_input,        \* self._next_input
    run_input,         \* run()'s parameter `input`
    pipeline_input,    \* _pipeline()'s parameter `input`
    cicd_build,        \* _pipeline()'s local `build`
    cicd_exc,          \* the exception `e` bound by `except Exception as e`
    cicd_pc,           \* where run() / _pipeline() is suspended
    cicd_attempt,      \* attempt number of the activity awaited
    cicd_inflight,     \* activities scheduled and not yet finished
    cicd_cycle,        \* number of _pipeline() calls so far
    cicd_log,          \* history of the current cycle: activities invoked / finished
    cicd_trace,        \* history of the current cycle: values of self._status
    cicd_outcome,      \* what the caller of run() receives
    last_signal,       \* history: the latest trigger_redeploy delivery
    \* ---- both
    queried            \* history: the query handler served last ("": none yet)

infra_vars == <<infra_status, infra_output, infra_applied, infra_input,
                infra_plan, infra_exc, infra_pc, infra_attempt,
                infra_inflight, infra_log, infra_trace, infra_result>>

cicd_vars == <<cicd_status, cicd_result, redeploy_requested, next_input,
               run_input, pipeline_input, cicd_build, cicd_exc, cicd_pc,
               cicd_attempt, cicd_inflight, cicd_cycle, cicd_log, cicd_trace,
               cicd_outcome, last_signal>>

vars == <<workflow, infra_vars, cicd_vars, queried>>

\* ------------------------------------------------------------------ bounds

\* Attempts counted under a retry policy without an attempt ceiling.
MaxTrackedAttempts == 2

\* Pipeline cycles (the first deploy and the redeploys) one behaviour runs.
MaxCycles == 2

\* ------------------------------------------------------------ shared model

\* Python's None.
None == [kind |-> "None"]

\* An event of the history log: an activity invoked with args, returned
\* ("ok", args its result where the code reads it) or failed for good
\* ("failed", args the number of attempts made, which the infra log keeps).
Event(ev, activity, args) == [ev |-> ev, activity |-> activity, args |-> args]

\* The error execute_activity raises once an activity is out of attempts.
ActivityError(activity) == [kind |-> "ActivityError", activity |-> activity]

\* A RuntimeError raised by the workflow code itself.
RuntimeError(message) == [kind |-> "RuntimeError", message |-> message]

\* Whether the runtime retries a failed attempt: maximum_attempts = 0 is
\* "no ceiling" (counted up to MaxTrackedAttempts only).
CanRetry(maximum_attempts, attempt) ==
    IF maximum_attempts = 0 THEN attempt < MaxTrackedAttempts
                            ELSE attempt < maximum_attempts

\* Whether a failed attempt is raised at the await.
Surfaces(maximum_attempts, attempt, nonretryable) ==
    nonretryable \/ (maximum_attempts # 0 /\ attempt >= maximum_attempts)

\* ------------------------------------------------- infra: models, activities

InfraStatus == {"PENDING", "INITIALIZING", "PLANNING", "PROVISIONING",
                "VALIDATING", "READY", "FAILED", "DESTROYING"}

ProjectNames == {"test", "q"}
Environments == {"test", "dev"}
AdminUsernames == {"azureadmin", "ops"}

\* InfraInput (the terraform variables that no step reads are left out).
InfraInput(project_name, environment, admin_username) ==
    [kind |-> "InfraInput", project_name |-> project_name,
     environment |-> environment, admin_username |-> admin_username]

InfraInputs == {InfraInput(p, e, a) :
                  p \in ProjectNames, e \in Environments, a \in AdminUsernames}

terraform_init(input) == "./terraform"

terraform_plan(input) ==
    [kind |-> "TerraformPlanResult", has_changes |-> TRUE,
     resources_to_add |-> 7, plan_file |-> "./terraform/tfplan"]

\* terraform_apply with project and environment swapped in the VM name.
terraform_apply_NameSwapped(input, plan_file) ==
    [kind |-> "InfraOutput",
     resource_group_name |-> "rg-" \o input.project_name \o "-" \o input.environment,
     vnet_name |-> "vnet-" \o input.project_name \o "-" \o input.environment,
     nsg_name |-> "nsg-" \o input.project_name \o "-" \o input.environment,
     vm_name |-> "vm-" \o input.environment \o "-" \o input.project_name,
     vm_public_ip |-> "20.185.72.14",
     vm_private_ip |-> "10.0.1.4",
     admin_username |-> input.admin_username]

terraform_apply(input, plan_file) ==
    [kind |-> "InfraOutput",
     resource_group_name |-> "rg-" \o input.project_name \o "-" \o input.environment,
     vnet_name |-> "vnet-" \o input.project_name \o "-" \o input.environment,
     nsg_name |-> "nsg-" \o input.project_name \o "-" \o input.environment,
     vm_name |-> "vm-" \o input.project_name \o "-" \o input.environment,
     vm_public_ip |-> "20.185.72.14",
     vm_private_ip |-> "10.0.1.4",
     admin_username |-> input.admin_username]

\* RETRY.maximum_attempts
RETRY_maximum_attempts == 3

\* RetryPolicy(maximum_attempts=3) of the terraform_destroy call
DESTROY_maximum_attempts == 3

InfraSteps == {"terraform_init", "terraform_plan", "terraform_apply",
               "validate_infra"}

infra_maximum_attempts(activity) ==
    IF activity = "terraform_destroy" THEN DESTROY_maximum_attempts
                                      ELSE RETRY_maximum_attempts

\* ------------------------------------------------------------ infra: queries

infra_get_status == infra_status

\* get_infra_output with `ready` meaning "there is an output".
get_infra_output_ReadyWhenOutput ==
    IF infra_output = None
    THEN [status |-> infra_status, ready |-> FALSE]
    ELSE [status |-> infra_status,
          ready |-> TRUE,
          vm_public_ip |-> infra_output.vm_public_ip,
          vm_name |-> infra_output.vm_name,
          admin_username |-> infra_output.admin_username,
          resource_group |-> infra_output.resource_group_name]

\* get_infra_output keeping the VM fields back until the status is READY.
get_infra_output_HiddenUntilReady ==
    IF infra_output = None \/ infra_status # "READY"
    THEN [status |-> infra_status, ready |-> FALSE]
    ELSE [status |-> infra_status,
          ready |-> infra_status = "READY",
          vm_public_ip |-> infra_output.vm_public_ip,
          vm_name |-> infra_output.vm_name,
          admin_username |-> infra_output.admin_username,
          resource_group |-> infra_output.resource_group_name]

get_infra_output ==
    IF infra_output = None
    THEN [status |-> infra_status, ready |-> FALSE]
    ELSE [status |-> infra_status,
          ready |-> infra_status = "READY",
          vm_public_ip |-> infra_output.vm_public_ip,
          vm_name |-> infra_output.vm_name,
          admin_username |-> infra_output.admin_username,
          resource_group |-> infra_output.resource_group_name]

\* ------------------------------------------------------------ infra: run()

InfraInit ==
    /\ infra_status = "PENDING"
    /\ infra_output = None
    /\ infra_applied = FALSE
    /\ infra_input = None
    /\ infra_plan = None
    /\ infra_exc = None
    /\ infra_pc = "start"
    /\ infra_attempt = 0
    /\ infra_inflight = {}
    /\ infra_log = <<>>
    /\ infra_trace = <<"PENDING">>
    /\ infra_result = None

\* `self._status = status`.
InfraSetStatus(status) ==
    /\ infra_status' = status
    /\ infra_trace' = Append(infra_trace, status)

\* The activity awaited (if any) ended with the events `ended`; then
\* `await workflow.execute_activity(activity, args...)`: schedule, suspend.
InfraAwait(activity, args, ended) ==
    /\ infra_pc' = activity
    /\ infra_attempt' = 1
    /\ infra_inflight' = (infra_inflight \ {infra_pc}) \cup {activity}
    /\ infra_log' = infra_log \o ended \o <<Event("invoke", activity, args)>>

\* run() ends (returns or raises) after the activity awaited ended.
InfraEnd(ended, result) ==
    /\ infra_pc' = "done"
    /\ infra_attempt' = 0
    /\ infra_inflight' = infra_inflight \ {infra_pc}
    /\ infra_log' = infra_log \o ended
    /\ infra_result' = result

\* The arguments the activity awaited was invoked with.
InfraAwaitedArgs == infra_log[Len(infra_log)].args

\* InfraExcept marking the run FAILED before it starts the teardown.
InfraExcept_FailedBeforeTeardown(e, ended) ==
    /\ infra_exc' = e
    /\ IF infra_applied
       THEN /\ infra_status' = "DESTROYING"
            /\ infra_trace' = infra_trace \o <<"FAILED", "DESTROYING">>
            /\ InfraAwait("terraform_destroy", <<infra_input>>, ended)
            /\ UNCHANGED infra_result
       ELSE /\ InfraSetStatus("FAILED")
            /\ InfraEnd(ended, [kind |-> "raised", error |-> e])

\* InfraExcept without the `if self._applied` check.
InfraExcept_AlwaysTearsDown(e, ended) ==
    /\ infra_exc' = e
    /\ InfraSetStatus("DESTROYING")
    /\ InfraAwait("terraform_destroy", <<infra_input>>, ended)
    /\ UNCHANGED infra_result

\* The `except Exception as e` block of run(), up to its await or its end.
InfraExcept(e, ended) ==
    /\ infra_exc' = e
    /\ IF infra_applied
       THEN /\ InfraSetStatus("DESTROYING")
            /\ InfraAwait("terraform_destroy", <<infra_input>>, ended)
            /\ UNCHANGED infra_result
       ELSE /\ InfraSetStatus("FAILED")
            /\ InfraEnd(ended, [kind |-> "raised", error |-> e])

\* InfraSettle raising the teardown's error when the teardown failed.
InfraSettle_RaisesDestroyError(ended) ==
    /\ InfraSetStatus("FAILED")
    /\ InfraEnd(<<Event(ended, infra_pc,
                       IF ended = "failed" THEN <<infra_attempt>> ELSE <<>>)>>,
                [kind |-> "raised",
                 error |-> IF ended = "failed" THEN ActivityError(infra_pc)
                                               ELSE infra_exc])

\* The end of the except block: `self._status = FAILED; raise`, which
\* re-raises e whether or not `except Exception as de` ran (ended "failed").
InfraSettle(ended) ==
    /\ InfraSetStatus("FAILED")
    /\ InfraEnd(<<Event(ended, infra_pc,
                       IF ended = "failed" THEN <<infra_attempt>> ELSE <<>>)>>,
                [kind |-> "raised", error |-> infra_exc])

\* run() up to its first await.
InfraRun(input) ==
    /\ workflow = "InfraProvisioningWorkflow"
    /\ infra_pc = "start"
    /\ infra_input' = input
    /\ InfraSetStatus("INITIALIZING")
    /\ InfraAwait("terraform_init", <<input>>, <<>>)
    /\ UNCHANGED <<workflow, queried, cicd_vars, infra_output, infra_applied,
                   infra_plan,
                   infra_exc, infra_result>>

\* A failed attempt of the awaited activity that the runtime retries.
InfraRetry ==
    /\ workflow = "InfraProvisioningWorkflow"
    /\ infra_pc \in InfraSteps \cup {"terraform_destroy"}
    /\ CanRetry(infra_maximum_attempts(infra_pc), infra_attempt)
    /\ infra_attempt' = infra_attempt + 1
    /\ UNCHANGED <<workflow, queried, cicd_vars, infra_status, infra_output,
                   infra_applied,
                   infra_input, infra_plan, infra_exc, infra_pc,
                   infra_inflight, infra_log, infra_trace, infra_result>>

\* terraform_init returned.
InfraInitDone ==
    /\ workflow = "InfraProvisioningWorkflow"
    /\ infra_pc = "terraform_init"
    /\ InfraSetStatus("PLANNING")
    /\ InfraAwait("terraform_plan", <<infra_input>>,
                  <<Event("ok", infra_pc, <<>>)>>)
    /\ UNCHANGED <<workflow, queried, cicd_vars, infra_output, infra_applied,
                   infra_input,
                   infra_plan, infra_exc, infra_result>>

\* InfraPlanDone handing apply the init directory instead of the plan file.
InfraPlanDone_WrongArtifact ==
    /\ workflow = "InfraProvisioningWorkflow"
    /\ infra_pc = "terraform_plan"
    /\ infra_plan' = terraform_plan(InfraAwaitedArgs[1])
    /\ InfraSetStatus("PROVISIONING")
    /\ InfraAwait("terraform_apply",
                  <<infra_input, terraform_init(infra_input)>>,
                  <<Event("ok", infra_pc, <<>>)>>)
    /\ UNCHANGED <<workflow, queried, cicd_vars, infra_output, infra_applied,
                   infra_input,
                   infra_exc, infra_result>>

\* terraform_plan returned.
InfraPlanDone ==
    /\ workflow = "InfraProvisioningWorkflow"
    /\ infra_pc = "terraform_plan"
    /\ infra_plan' = terraform_plan(InfraAwaitedArgs[1])
    /\ InfraSetStatus("PROVISIONING")
    /\ InfraAwait("terraform_apply", <<infra_input, infra_plan'.plan_file>>,
                  <<Event("ok", infra_pc, <<>>)>>)
    /\ UNCHANGED <<workflow, queried, cicd_vars, infra_output, infra_applied,
                   infra_input,
                   infra_exc, infra_result>>

\* terraform_apply returned.
InfraApplyDone ==
    /\ workflow = "InfraProvisioningWorkflow"
    /\ infra_pc = "terraform_apply"
    /\ infra_output' = terraform_apply(InfraAwaitedArgs[1], InfraAwaitedArgs[2])
    /\ infra_applied' = TRUE
    /\ InfraSetStatus("VALIDATING")
    /\ InfraAwait("validate_infra", <<infra_output'>>,
                  <<Event("ok", infra_pc, <<>>)>>)
    /\ UNCHANGED <<workflow, queried, cicd_vars, infra_input, infra_plan,
                   infra_exc, infra_result>>

\* InfraValidateDone without the `if not healthy: raise`.
InfraValidateDone_NoHealthCheck(healthy) ==
    /\ workflow = "InfraProvisioningWorkflow"
    /\ infra_pc = "validate_infra"
    /\ InfraSetStatus("READY")
    /\ InfraEnd(<<Event("ok", infra_pc, <<healthy>>)>>,
                [kind |-> "returned", value |-> infra_output])
    /\ UNCHANGED <<workflow, queried, cicd_vars, infra_output, infra_applied,
                   infra_input,
                   infra_plan, infra_exc>>

\* validate_infra returned `healthy`.
InfraValidateDone(healthy) ==
    /\ workflow = "InfraProvisioningWorkflow"
    /\ infra_pc = "validate_infra"
    /\ IF healthy
       THEN /\ InfraSetStatus("READY")
            /\ InfraEnd(<<Event("ok", infra_pc, <<healthy>>)>>,
                        [kind |-> "returned", value |-> infra_output])
            /\ UNCHANGED infra_exc
       ELSE InfraExcept(RuntimeError(infra_output.vm_name
                                       \o " failed health check"),
                        <<Event("ok", infra_pc, <<healthy>>)>>)
    /\ UNCHANGED <<workflow, queried, cicd_vars, infra_output, infra_applied,
                   infra_input,
                   infra_plan>>

\* An activity of the try block failed for good: the await raises.
InfraStepFailed(nonretryable) ==
    /\ workflow = "InfraProvisioningWorkflow"
    /\ infra_pc \in InfraSteps
    /\ Surfaces(infra_maximum_attempts(infra_pc), infra_attempt, nonretryable)
    /\ InfraExcept(ActivityError(infra_pc),
                   <<Event("failed", infra_pc, <<infra_attempt>>)>>)
    /\ UNCHANGED <<workflow, queried, cicd_vars, infra_output, infra_applied,
                   infra_input,
                   infra_plan>>

\* terraform_destroy returned.
InfraDestroyDone ==
    /\ workflow = "InfraProvisioningWorkflow"
    /\ infra_pc = "terraform_destroy"
    /\ InfraSettle("ok")
    /\ UNCHANGED <<workflow, queried, cicd_vars, infra_output, infra_applied,
                   infra_input,
                   infra_plan, infra_exc>>

\* InfraDestroyFailed starting the teardown's attempts over instead of
\* giving up.
InfraDestroyFailed_StartsOver(nonretryable) ==
    /\ workflow = "InfraProvisioningWorkflow"
    /\ infra_pc = "terraform_destroy"
    /\ Surfaces(infra_maximum_attempts(infra_pc), infra_attempt, nonretryable)
    /\ infra_attempt > 1
    /\ infra_attempt' = 1
    /\ UNCHANGED <<workflow, queried, cicd_vars, infra_status, infra_output,
                   infra_applied, infra_input, infra_plan, infra_exc,
                   infra_pc, infra_inflight, infra_log, infra_trace,
                   infra_result>>

\* terraform_destroy failed for good: `except Exception as de` logs it.
InfraDestroyFailed(nonretryable) ==
    /\ workflow = "InfraProvisioningWorkflow"
    /\ infra_pc = "terraform_destroy"
    /\ Surfaces(infra_maximum_attempts(infra_pc), infra_attempt, nonretryable)
    /\ InfraSettle("failed")
    /\ UNCHANGED <<workflow, queried, cicd_vars, infra_output, infra_applied,
                   infra_input,
                   infra_plan, infra_exc>>

InfraNext ==
    \/ \E input \in InfraInputs : InfraRun(input)
    \/ InfraRetry
    \/ InfraInitDone
    \/ InfraPlanDone
    \/ InfraApplyDone
    \/ \E healthy \in BOOLEAN : InfraValidateDone(healthy)
    \/ \E nonretryable \in BOOLEAN : InfraStepFailed(nonretryable)
    \/ InfraDestroyDone
    \/ \E nonretryable \in BOOLEAN : InfraDestroyFailed(nonretryable)

\* -------------------------------------------------- cicd: models, activities

DeployStatus == {"PENDING", "CHECKING_OUT", "BUILDING", "TESTING",
                 "DEPLOYING", "COMPLETED", "FAILED", "ROLLED_BACK"}

\* "" is the default target_host: not provisioned / omitted.
TargetHosts == {"", "1.2.3.4", "20.185.72.14"}
DeployAdmins == {"azureadmin", "deploy"}
\* "" stands for a commit_sha that is None or empty: `or` treats both alike.
CommitShas == {"", "4f2a9c1e"}

\* The defaults of the DeployInput fields a caller may leave out.
DeployInput_target_host_default == ""
DeployInput_admin_username_default == "azureadmin"

\* DeployInput (repo_url, branch and the commands only reach log lines).
DeployInput(commit_sha, target_host, admin_username) ==
    [kind |-> "DeployInput", commit_sha |-> commit_sha,
     target_host |-> target_host, admin_username |-> admin_username]

DeployInputs == {DeployInput(c, h, a) :
                   c \in CommitShas, h \in TargetHosts, a \in DeployAdmins}

\* uuid.uuid4().hex[:8]: a fresh value for each cycle.
uuid4_hex8(n) == "0000000" \o ToString(n)

checkout_and_build(input, uuid) ==
    LET sha == IF input.commit_sha # "" THEN input.commit_sha ELSE uuid
    IN  [kind |-> "BuildResult", artifact_name |-> "app-" \o sha \o ".tar.gz",
         commit_sha |-> sha, tests_passed |-> 0, tests_total |-> 0]

deploy_artifact(build, target_host, admin_username) ==
    [kind |-> "DeployResult", target_host |-> target_host,
     artifact |-> build.artifact_name,
     application_url |-> "http://" \o target_host \o ":8080",
     healthy |-> TRUE]

\* RETRY.maximum_attempts of cicd_workflow
CICD_RETRY_maximum_attempts == 3

\* rollback and notify are invoked without a retry_policy: no attempt ceiling.
NO_POLICY_maximum_attempts == 0

CicdSteps == {"checkout_and_build", "run_tests", "deploy_artifact"}

\* The activity awaited at each suspension point of _pipeline().
CicdActivityAt(pc) == IF pc = "notify_failure" THEN "notify" ELSE pc

CicdAwaitingActivity ==
    cicd_pc \in CicdSteps \cup {"notify", "rollback", "notify_failure"}

cicd_maximum_attempts(pc) ==
    IF pc \in CicdSteps THEN CICD_RETRY_maximum_attempts
                        ELSE NO_POLICY_maximum_attempts

\* ------------------------------------------------------------- cicd: queries

cicd_get_status == cicd_status

get_deploy_details ==
    IF cicd_result = None
    THEN [status |-> cicd_status]
    ELSE [status |-> cicd_status,
          application_url |-> cicd_result.application_url,
          artifact |-> cicd_result.artifact,
          healthy |-> cicd_result.healthy]

\* ------------------------------------------------- cicd: signal, run, _pipeline

CicdInit ==
    /\ cicd_status = "PENDING"
    /\ cicd_result = None
    /\ redeploy_requested = FALSE
    /\ next_input = None
    /\ run_input = None
    /\ pipeline_input = None
    /\ cicd_build = None
    /\ cicd_exc = None
    /\ cicd_pc = "start"
    /\ cicd_attempt = 0
    /\ cicd_inflight = {}
    /\ cicd_cycle = 0
    /\ cicd_log = <<>>
    /\ cicd_trace = <<"PENDING">>
    /\ cicd_outcome = None
    /\ last_signal = None

\* `self._status = status`.
CicdSetStatus(status) ==
    /\ cicd_status' = status
    /\ cicd_trace' = Append(cicd_trace, status)

\* The activity awaited ended with the events `ended`; then
\* `await workflow.execute_activity(...)` at suspension point pc.
CicdAwait(pc, args, ended) ==
    /\ cicd_pc' = pc
    /\ cicd_attempt' = 1
    /\ cicd_inflight' = (cicd_inflight \ {CicdActivityAt(cicd_pc)})
                           \cup {CicdActivityAt(pc)}
    /\ cicd_log' = cicd_log \o ended
                     \o <<Event("invoke", CicdActivityAt(pc), args)>>

\* The activity awaited ended; run() suspends in wait_condition (pc "wait")
\* or ends by raising (pc "done").
CicdLeave(pc, ended) ==
    /\ cicd_pc' = pc
    /\ cicd_attempt' = 0
    /\ cicd_inflight' = cicd_inflight \ {CicdActivityAt(cicd_pc)}
    /\ cicd_log' = cicd_log \o ended

\* The arguments the activity awaited was invoked with.
CicdAwaitedArgs == cicd_log[Len(cicd_log)].args

\* _pipeline(input) up to its first await.
CicdPipeline(input) ==
    /\ pipeline_input' = input
    /\ cicd_cycle' = cicd_cycle + 1
    /\ cicd_status' = "BUILDING"
    /\ cicd_trace' = <<cicd_status, "BUILDING">>
    /\ cicd_pc' = "checkout_and_build"
    /\ cicd_attempt' = 1
    /\ cicd_inflight' = cicd_inflight \cup {"checkout_and_build"}
    /\ cicd_log' = <<Event("invoke", "checkout_and_build", <<input>>)>>
    /\ cicd_build' = None
    /\ cicd_exc' = None

\* The `except Exception as e` block of _pipeline() up to its first await.
CicdExcept(e, ended) ==
    /\ cicd_exc' = e
    /\ CicdSetStatus("FAILED")
    /\ CicdAwait("rollback",
                 <<pipeline_input.target_host, pipeline_input.admin_username>>,
                 ended)

\* trigger_redeploy keeping the input of a request that is still pending.
trigger_redeploy_KeepsFirst(input) ==
    /\ workflow = "CICDPipelineWorkflow"
    /\ cicd_pc # "done"
    /\ next_input' = IF redeploy_requested THEN next_input ELSE input
    /\ redeploy_requested' = TRUE
    /\ last_signal' = [input |-> input, overwrote |-> redeploy_requested]
    /\ UNCHANGED <<workflow, queried, infra_vars, cicd_status, cicd_result,
                   run_input, pipeline_input, cicd_build, cicd_exc, cicd_pc,
                   cicd_attempt, cicd_inflight, cicd_cycle, cicd_log,
                   cicd_trace, cicd_outcome>>

\* trigger_redeploy handing the new input to the cycle in flight as well.
trigger_redeploy_AltersCycle(input) ==
    /\ workflow = "CICDPipelineWorkflow"
    /\ cicd_pc # "done"
    /\ next_input' = input
    /\ redeploy_requested' = TRUE
    /\ last_signal' = [input |-> input, overwrote |-> redeploy_requested]
    /\ pipeline_input' = IF pipeline_input = None THEN None ELSE input
    /\ UNCHANGED <<workflow, queried, infra_vars, cicd_status, cicd_result,
                   run_input, cicd_build, cicd_exc, cicd_pc, cicd_attempt,
                   cicd_inflight, cicd_cycle, cicd_log, cicd_trace,
                   cicd_outcome>>

\* The signal handler.
trigger_redeploy(input) ==
    /\ workflow = "CICDPipelineWorkflow"
    /\ cicd_pc # "done"
    /\ next_input' = input
    /\ redeploy_requested' = TRUE
    /\ last_signal' = [input |-> input, overwrote |-> redeploy_requested]
    /\ UNCHANGED <<workflow, queried, infra_vars, cicd_status, cicd_result,
                   run_input,
                   pipeline_input, cicd_build, cicd_exc, cicd_pc, cicd_attempt,
                   cicd_inflight, cicd_cycle, cicd_log, cicd_trace,
                   cicd_outcome>>

\* CicdRun without the `if not input.target_host` check.
CicdRun_NoHostCheck(input) ==
    /\ workflow = "CICDPipelineWorkflow"
    /\ cicd_pc = "start"
    /\ run_input' = input
    /\ CicdPipeline(input)
    /\ UNCHANGED <<workflow, queried, infra_vars, last_signal, cicd_result,
                   redeploy_requested,
                   next_input, cicd_outcome>>

\* run() up to its first await, or to the ValueError.
CicdRun(input) ==
    /\ workflow = "CICDPipelineWorkflow"
    /\ cicd_pc = "start"
    /\ run_input' = input
    /\ IF input.target_host = ""
       THEN /\ cicd_pc' = "done"
            /\ cicd_outcome' =
                 [kind |-> "raised",
                  error |-> [kind |-> "ValueError",
                             message |-> "no target_host - has the infra team provisioned the VM yet?"]]
            /\ UNCHANGED <<cicd_status, pipeline_input, cicd_build, cicd_exc,
                           cicd_attempt, cicd_inflight, cicd_cycle, cicd_log,
                           cicd_trace>>
       ELSE /\ CicdPipeline(input)
            /\ UNCHANGED cicd_outcome
    /\ UNCHANGED <<workflow, queried, infra_vars, last_signal, cicd_result,
                   redeploy_requested,
                   next_input>>

\* A failed attempt of the awaited activity that the runtime retries.
CicdRetry ==
    /\ workflow = "CICDPipelineWorkflow"
    /\ CicdAwaitingActivity
    /\ CanRetry(cicd_maximum_attempts(cicd_pc), cicd_attempt)
    /\ cicd_attempt' = cicd_attempt + 1
    /\ UNCHANGED <<workflow, queried, infra_vars, last_signal, cicd_status,
                   cicd_result,
                   redeploy_requested, next_input, run_input, pipeline_input,
                   cicd_build, cicd_exc, cicd_pc, cicd_inflight, cicd_cycle,
                   cicd_log, cicd_trace, cicd_outcome>>

\* checkout_and_build returned.
CicdBuildDone ==
    /\ workflow = "CICDPipelineWorkflow"
    /\ cicd_pc = "checkout_and_build"
    /\ cicd_build' = checkout_and_build(CicdAwaitedArgs[1],
                                        uuid4_hex8(cicd_cycle))
    /\ CicdSetStatus("TESTING")
    /\ CicdAwait("run_tests", <<pipeline_input>>,
                 <<Event("ok", "checkout_and_build", <<>>)>>)
    /\ UNCHANGED <<workflow, queried, infra_vars, last_signal, cicd_result,
                   redeploy_requested,
                   next_input, run_input, pipeline_input, cicd_exc,
                   cicd_cycle, cicd_outcome>>

\* CicdTestsDone deploying to the host run() was started with.
CicdTestsDone_DeployToOriginalHost(passed) ==
    /\ workflow = "CICDPipelineWorkflow"
    /\ cicd_pc = "run_tests"
    /\ IF passed
       THEN /\ CicdSetStatus("DEPLOYING")
            /\ CicdAwait("deploy_artifact",
                         <<cicd_build, run_input.target_host,
                           run_input.admin_username>>,
                         <<Event("ok", "run_tests", <<passed>>)>>)
            /\ UNCHANGED cicd_exc
       ELSE CicdExcept(RuntimeError("tests failed, not deploying broken code"),
                       <<Event("ok", "run_tests", <<passed>>)>>)
    /\ UNCHANGED <<workflow, queried, infra_vars, last_signal, cicd_result,
                   redeploy_requested,
                   next_input, run_input, pipeline_input, cicd_build,
                   cicd_cycle, cicd_outcome>>

\* CicdTestsDone without the `if not passed` check.
CicdTestsDone_IgnoresVerdict(passed) ==
    /\ workflow = "CICDPipelineWorkflow"
    /\ cicd_pc = "run_tests"
    /\ CicdSetStatus("DEPLOYING")
    /\ CicdAwait("deploy_artifact",
                 <<cicd_build, pipeline_input.target_host,
                   pipeline_input.admin_username>>,
                 <<Event("ok", "run_tests", <<passed>>)>>)
    /\ UNCHANGED <<workflow, queried, infra_vars, last_signal, cicd_result,
                   redeploy_requested, next_input, run_input, pipeline_input,
                   cicd_build, cicd_exc, cicd_cycle, cicd_outcome>>

\* run_tests returned `passed`.
CicdTestsDone(passed) ==
    /\ workflow = "CICDPipelineWorkflow"
    /\ cicd_pc = "run_tests"
    /\ IF passed
       THEN /\ CicdSetStatus("DEPLOYING")
            /\ CicdAwait("deploy_artifact",
                         <<cicd_build, pipeline_input.target_host,
                           pipeline_input.admin_username>>,
                         <<Event("ok", "run_tests", <<passed>>)>>)
            /\ UNCHANGED cicd_exc
       ELSE CicdExcept(RuntimeError("tests failed, not deploying broken code"),
                       <<Event("ok", "run_tests", <<passed>>)>>)
    /\ UNCHANGED <<workflow, queried, infra_vars, last_signal, cicd_result,
                   redeploy_requested,
                   next_input, run_input, pipeline_input, cicd_build,
                   cicd_cycle, cicd_outcome>>

\* deploy_artifact returned.
CicdDeployDone ==
    /\ workflow = "CICDPipelineWorkflow"
    /\ cicd_pc = "deploy_artifact"
    /\ cicd_result' = deploy_artifact(CicdAwaitedArgs[1], CicdAwaitedArgs[2],
                                      CicdAwaitedArgs[3])
    /\ CicdSetStatus("COMPLETED")
    /\ CicdAwait("notify",
                 <<"deployed " \o cicd_build.artifact_name \o " to "
                     \o pipeline_input.target_host>>,
                 <<Event("ok", "deploy_artifact", <<>>)>>)
    /\ UNCHANGED <<workflow, queried, infra_vars, last_signal,
                   redeploy_requested, next_input,
                   run_input, pipeline_input, cicd_build, cicd_exc, cicd_cycle,
                   cicd_outcome>>

\* The success notify returned: _pipeline() returns `result`, run() stores
\* it in self._result (the value it already holds) and suspends in
\* wait_condition.
CicdNotifyDone ==
    /\ workflow = "CICDPipelineWorkflow"
    /\ cicd_pc = "notify"
    /\ CicdLeave("wait", <<Event("ok", "notify", <<>>)>>)
    /\ UNCHANGED <<workflow, queried, infra_vars, last_signal, cicd_status,
                   cicd_result,
                   redeploy_requested, next_input, run_input, pipeline_input,
                   cicd_build, cicd_exc, cicd_cycle, cicd_trace, cicd_outcome>>

\* CicdStepFailed with the success notify guarded: its failure is swallowed
\* and the cycle still counts as deployed.
CicdStepFailed_NotifyGuarded(nonretryable) ==
    /\ workflow = "CICDPipelineWorkflow"
    /\ cicd_pc \in CicdSteps \cup {"notify"}
    /\ Surfaces(cicd_maximum_attempts(cicd_pc), cicd_attempt, nonretryable)
    /\ IF cicd_pc = "notify"
       THEN /\ CicdLeave("wait", <<Event("failed", "notify", <<>>)>>)
            /\ UNCHANGED <<cicd_status, cicd_trace, cicd_exc>>
       ELSE CicdExcept(ActivityError(cicd_pc),
                       <<Event("failed", cicd_pc, <<>>)>>)
    /\ UNCHANGED <<workflow, queried, infra_vars, last_signal, cicd_result,
                   redeploy_requested, next_input, run_input, pipeline_input,
                   cicd_build, cicd_cycle, cicd_outcome>>

\* An activity of the try block failed for good: the await raises.
CicdStepFailed(nonretryable) ==
    /\ workflow = "CICDPipelineWorkflow"
    /\ cicd_pc \in CicdSteps \cup {"notify"}
    /\ Surfaces(cicd_maximum_attempts(cicd_pc), cicd_attempt, nonretryable)
    /\ CicdExcept(ActivityError(cicd_pc),
                  <<Event("failed", cicd_pc, <<>>)>>)
    /\ UNCHANGED <<workflow, queried, infra_vars, last_signal, cicd_result,
                   redeploy_requested,
                   next_input, run_input, pipeline_input, cicd_build,
                   cicd_cycle, cicd_outcome>>

\* rollback returned.
CicdRollbackDone ==
    /\ workflow = "CICDPipelineWorkflow"
    /\ cicd_pc = "rollback"
    /\ CicdSetStatus("ROLLED_BACK")
    /\ CicdAwait("notify_failure",
                 <<[format |-> "deploy failed: {e}", e |-> cicd_exc]>>,
                 <<Event("ok", "rollback", <<>>)>>)
    /\ UNCHANGED <<workflow, queried, infra_vars, last_signal, cicd_result,
                   redeploy_requested,
                   next_input, run_input, pipeline_input, cicd_build, cicd_exc,
                   cicd_cycle, cicd_outcome>>

\* rollback failed for good: `except Exception: pass`.
CicdRollbackFailed(nonretryable) ==
    /\ workflow = "CICDPipelineWorkflow"
    /\ cicd_pc = "rollback"
    /\ Surfaces(cicd_maximum_attempts(cicd_pc), cicd_attempt, nonretryable)
    /\ CicdAwait("notify_failure",
                 <<[format |-> "deploy failed: {e}", e |-> cicd_exc]>>,
                 <<Event("failed", "rollback", <<>>)>>)
    /\ UNCHANGED <<workflow, queried, infra_vars, last_signal, cicd_status,
                   cicd_result,
                   redeploy_requested, next_input, run_input, pipeline_input,
                   cicd_build, cicd_exc, cicd_cycle, cicd_trace, cicd_outcome>>

\* The failure notify returned: `raise` re-raises e out of _pipeline() and,
\* uncaught in run(), out of run().
CicdFailureNotifyDone ==
    /\ workflow = "CICDPipelineWorkflow"
    /\ cicd_pc = "notify_failure"
    /\ CicdLeave("done", <<Event("ok", "notify", <<>>)>>)
    /\ cicd_outcome' = [kind |-> "raised", error |-> cicd_exc]
    /\ UNCHANGED <<workflow, queried, infra_vars, last_signal, cicd_status,
                   cicd_result,
                   redeploy_requested, next_input, run_input, pipeline_input,
                   cicd_build, cicd_exc, cicd_cycle, cicd_trace>>

\* The failure notify failed for good: its error leaves the except block
\* in place of e.
CicdFailureNotifyFailed(nonretryable) ==
    /\ workflow = "CICDPipelineWorkflow"
    /\ cicd_pc = "notify_failure"
    /\ Surfaces(cicd_maximum_attempts(cicd_pc), cicd_attempt, nonretryable)
    /\ CicdLeave("done", <<Event("failed", "notify", <<>>)>>)
    /\ cicd_outcome' = [kind |-> "raised", error |-> ActivityError("notify")]
    /\ UNCHANGED <<workflow, queried, infra_vars, last_signal, cicd_status,
                   cicd_result,
                   redeploy_requested, next_input, run_input, pipeline_input,
                   cicd_build, cicd_exc, cicd_cycle, cicd_trace>>

\* CicdRedeploy running the cycle again on the input run() was started with.
CicdRedeploy_RerunsStartInput ==
    /\ workflow = "CICDPipelineWorkflow"
    /\ cicd_pc = "wait"
    /\ redeploy_requested
    /\ cicd_cycle < MaxCycles
    /\ redeploy_requested' = FALSE
    /\ CicdPipeline(run_input)
    /\ UNCHANGED <<workflow, queried, infra_vars, last_signal, cicd_result,
                   next_input, run_input, cicd_outcome>>

\* CicdRedeploy defaulting only the missing target host.
CicdRedeploy_DefaultsHostOnly ==
    /\ workflow = "CICDPipelineWorkflow"
    /\ cicd_pc = "wait"
    /\ redeploy_requested
    /\ cicd_cycle < MaxCycles
    /\ redeploy_requested' = FALSE
    /\ LET redeploy ==
             IF next_input.target_host = ""
             THEN [next_input EXCEPT !.target_host = run_input.target_host]
             ELSE next_input
       IN  /\ next_input' = redeploy
           /\ CicdPipeline(redeploy)
    /\ UNCHANGED <<workflow, queried, infra_vars, last_signal, cicd_result,
                   run_input, cicd_outcome>>

\* CicdRedeploy discarding a request that names no target host.
CicdRedeploy_DropsHostlessSignal ==
    /\ workflow = "CICDPipelineWorkflow"
    /\ cicd_pc = "wait"
    /\ redeploy_requested
    /\ cicd_cycle < MaxCycles
    /\ redeploy_requested' = FALSE
    /\ IF next_input.target_host = ""
       THEN UNCHANGED <<cicd_status, next_input, pipeline_input, cicd_build,
                        cicd_exc, cicd_pc, cicd_attempt, cicd_inflight,
                        cicd_cycle, cicd_log, cicd_trace>>
       ELSE /\ next_input' = next_input
            /\ CicdPipeline(next_input)
    /\ UNCHANGED <<workflow, queried, infra_vars, last_signal, cicd_result,
                   run_input, cicd_outcome>>

\* CicdRedeploy running the signalled input as delivered, without defaults.
CicdRedeploy_NoDefaults ==
    /\ workflow = "CICDPipelineWorkflow"
    /\ cicd_pc = "wait"
    /\ redeploy_requested
    /\ cicd_cycle < MaxCycles
    /\ redeploy_requested' = FALSE
    /\ next_input' = next_input
    /\ CicdPipeline(next_input)
    /\ UNCHANGED <<workflow, queried, infra_vars, last_signal, cicd_result,
                   run_input, cicd_outcome>>

\* wait_condition is satisfied: one turn of the `while True` loop of run(),
\* up to the first await of _pipeline().  `redeploy` is the object
\* self._next_input refers to, so the defaults are written to it too.
CicdRedeploy ==
    /\ workflow = "CICDPipelineWorkflow"
    /\ cicd_pc = "wait"
    /\ redeploy_requested
    /\ cicd_cycle < MaxCycles
    /\ redeploy_requested' = FALSE
    /\ LET redeploy ==
             IF next_input.target_host = ""
             THEN [next_input EXCEPT
                     !.target_host = run_input.target_host,
                     !.admin_username = run_input.admin_username]
             ELSE next_input
       IN  /\ next_input' = redeploy
           /\ CicdPipeline(redeploy)
    /\ UNCHANGED <<workflow, queried, infra_vars, last_signal, cicd_result,
                   run_input, cicd_outcome>>

CicdNext ==
    \/ \E input \in DeployInputs : CicdRun(input)
    \/ \E input \in DeployInputs : trigger_redeploy(input)
    \/ CicdRetry
    \/ CicdBuildDone
    \/ \E passed \in BOOLEAN : CicdTestsDone(passed)
    \/ CicdDeployDone
    \/ CicdNotifyDone
    \/ \E nonretryable \in BOOLEAN : CicdStepFailed(nonretryable)
    \/ CicdRollbackDone
    \/ \E nonretryable \in BOOLEAN : CicdRollbackFailed(nonretryable)
    \/ CicdFailureNotifyDone
    \/ \E nonretryable \in BOOLEAN : CicdFailureNotifyFailed(nonretryable)
    \/ CicdRedeploy

\* ---------------------------------------------------------- specification

Init ==
    /\ workflow \in {"InfraProvisioningWorkflow", "CICDPipelineWorkflow"}
    /\ InfraInit
    /\ CicdInit
    /\ queried = ""

Next == InfraNext \/ CicdNext

Spec == Init /\ [][Next]_vars

\* ---------------------------------------------------------------- queries
\* The query handlers run as steps of their own: a handler computes its
\* reply from the fields and assigns nothing.  `queried` remembers which
\* handler ran last.

\* InfraProvisioningWorkflow.get_status
InfraQueryStatus ==
    /\ workflow = "InfraProvisioningWorkflow"
    /\ infra_get_status \in InfraStatus
    /\ queried' = "infra.get_status"
    /\ UNCHANGED <<workflow, infra_vars, cicd_vars>>

\* InfraProvisioningWorkflow.get_infra_output
InfraQueryOutput ==
    /\ workflow = "InfraProvisioningWorkflow"
    /\ get_infra_output.status \in InfraStatus
    /\ get_infra_output.ready \in BOOLEAN
    /\ queried' = "infra.get_infra_output"
    /\ UNCHANGED <<workflow, infra_vars, cicd_vars>>

\* CICDPipelineWorkflow.get_status
CicdQueryStatus ==
    /\ workflow = "CICDPipelineWorkflow"
    /\ cicd_get_status \in DeployStatus
    /\ queried' = "cicd.get_status"
    /\ UNCHANGED <<workflow, infra_vars, cicd_vars>>

\* get_deploy_details dropping the pending redeploy request it reports on.
CicdQueryDetails_AcknowledgesRequest ==
    /\ workflow = "CICDPipelineWorkflow"
    /\ get_deploy_details.status \in DeployStatus
    /\ queried' = "cicd.get_deploy_details"
    /\ redeploy_requested' = FALSE
    /\ UNCHANGED <<workflow, infra_vars, cicd_status, cicd_result, next_input,
                   run_input, pipeline_input, cicd_build, cicd_exc, cicd_pc,
                   cicd_attempt, cicd_inflight, cicd_cycle, cicd_log,
                   cicd_trace, cicd_outcome, last_signal>>

\* CICDPipelineWorkflow.get_deploy_details
CicdQueryDetails ==
    /\ workflow = "CICDPipelineWorkflow"
    /\ get_deploy_details.status \in DeployStatus
    /\ queried' = "cicd.get_deploy_details"
    /\ UNCHANGED <<workflow, infra_vars, cicd_vars>>

QueryNext ==
    \/ InfraQueryStatus
    \/ InfraQueryOutput
    \/ CicdQueryStatus
    \/ CicdQueryDetails

\* The sagas with clients querying them at any time.
QuerySpec == Init /\ [][Next \/ QueryNext]_vars

\* The runtime resumes a coroutine whose wait_condition holds.
LiveSpec == Spec /\ WF_vars(CicdRedeploy)

\* The attempt of the infra activity awaited ends: it returns, or it fails
\* and is retried, or it fails and the failure is raised at the await.
InfraAttemptEnds ==
    \/ InfraRetry
    \/ InfraInitDone
    \/ InfraPlanDone
    \/ InfraApplyDone
    \/ \E healthy \in BOOLEAN : InfraValidateDone(healthy)
    \/ \E nonretryable \in BOOLEAN : InfraStepFailed(nonretryable)
    \/ InfraDestroyDone
    \/ \E nonretryable \in BOOLEAN : InfraDestroyFailed(nonretryable)

\* One InfraProvisioningWorkflow instance whose activity attempts all end
\* (start_to_close_timeout bounds each attempt).
InfraLiveInit == Init /\ workflow = "InfraProvisioningWorkflow"

InfraLiveSpec ==
    InfraLiveInit /\ [][InfraNext]_vars /\ WF_vars(InfraAttemptEnds)

\* ------------------------------------------------- properties: infra saga

IsInfra == workflow = "InfraProvisioningWorkflow"

\* The log holds the event.
InfraLogged(e) == \E i \in 1..Len(infra_log) : infra_log[i] = e

\* The activities invoked, in order.
InfraCalls ==
    LET inv == SelectSeq(infra_log, LAMBDA e : e.ev = "invoke")
    IN  [i \in 1..Len(inv) |-> inv[i].activity]

IsPrefix(s, t) == Len(s) <= Len(t) /\ \A i \in 1..Len(s) : s[i] = t[i]

\* The last n elements of s (all of s when it is shorter).
Tail_n(s, n) == SubSeq(s, IF Len(s) > n THEN Len(s) - n + 1 ELSE 1, Len(s))

InfraStepOrder == <<"terraform_init", "terraform_plan", "terraform_apply",
                    "validate_infra">>

\* init, plan and apply returned, and validate returned healthy.
InfraAllStepsSucceeded ==
    /\ InfraLogged(Event("ok", "terraform_init", <<>>))
    /\ InfraLogged(Event("ok", "terraform_plan", <<>>))
    /\ InfraLogged(Event("ok", "terraform_apply", <<>>))
    /\ InfraLogged(Event("ok", "validate_infra", <<TRUE>>))

\* validate returned unhealthy, or failed for good.
InfraValidateFailed ==
    \/ InfraLogged(Event("ok", "validate_infra", <<FALSE>>))
    \/ \E n \in 1..RETRY_maximum_attempts :
         InfraLogged(Event("failed", "validate_infra", <<n>>))

\* C1: a run whose init, plan, apply and validate all succeed (validate
\* healthy) has ended with status READY, output().ready true, non-empty
\* vm_public_ip and vm_name, vm_name = "vm-<project>-<environment>", and the
\* InfraOutput of apply returned to the caller.
C1_SuccessfulRunIsReady ==
    (IsInfra /\ InfraAllStepsSucceeded) =>
        /\ infra_pc = "done"
        /\ infra_get_status = "READY"
        /\ get_infra_output.ready = TRUE
        /\ get_infra_output.vm_public_ip # ""
        /\ get_infra_output.vm_name # ""
        /\ get_infra_output.vm_name =
             "vm-" \o infra_input.project_name \o "-" \o infra_input.environment
        /\ infra_result.kind = "returned"
        /\ infra_result.value = infra_output
        /\ infra_result.value.vm_name = get_infra_output.vm_name
        /\ infra_result.value.admin_username = infra_input.admin_username

C1_Witness ==
    IsInfra /\ InfraAllStepsSucceeded /\ infra_status = "READY"
    /\ infra_input.project_name = "test" /\ infra_input.environment = "test"
    /\ infra_result.kind = "returned" /\ infra_result.value.vm_name = "vm-test-test"

\* C2: the steps are invoked in the order init, plan, apply, validate, each
\* one right after the previous one returned; apply is handed the plan file
\* that plan produced; at most one activity is in flight.
C2_StepsInOrderOneInFlight ==
    IsInfra =>
        /\ Cardinality(infra_inflight) <= 1
        /\ IsPrefix(SelectSeq(InfraCalls, LAMBDA a : a \in InfraSteps),
                    InfraStepOrder)
        /\ \A i \in 1..Len(infra_log) :
             /\ (infra_log[i].ev = "invoke" /\ infra_log[i].activity \in InfraSteps
                 /\ infra_log[i].activity # "terraform_init")
                  => \E k \in 2..4 :
                       /\ infra_log[i].activity = InfraStepOrder[k]
                       /\ i > 1
                       /\ infra_log[i - 1] = Event("ok",
                                             InfraStepOrder[k - 1], <<>>)
             /\ (infra_log[i].ev = "invoke" /\ infra_log[i].activity = "terraform_apply")
                  => /\ infra_plan # None
                     /\ infra_log[i].args = <<infra_input,
                                              infra_plan.plan_file>>
                     /\ infra_plan.plan_file = "./terraform/tfplan"

C2_Witness ==
    IsInfra /\ infra_pc = "validate_infra" /\ infra_inflight = {"validate_infra"}
    /\ InfraCalls = InfraStepOrder

\* C3: once validate reported unhealthy or failed for good, the status is
\* never READY; the saga goes VALIDATING -> DESTROYING, invokes teardown,
\* and is FAILED only after the teardown invocation has ended.
C3_ValidateFailureTearsDown ==
    (IsInfra /\ InfraValidateFailed) =>
        /\ infra_status \in {"DESTROYING", "FAILED"}
        /\ ~ \E i \in 1..Len(infra_trace) : infra_trace[i] = "READY"
        /\ InfraLogged(Event("invoke", "terraform_destroy", <<infra_input>>))
        /\ (infra_status = "DESTROYING") <=> (infra_pc = "terraform_destroy")
        /\ (infra_status = "DESTROYING")
             => Tail_n(infra_trace, 2) = <<"VALIDATING", "DESTROYING">>
        /\ (infra_status = "FAILED")
             => /\ Tail_n(infra_trace, 3) = <<"VALIDATING", "DESTROYING", "FAILED">>
                /\ infra_pc = "done"
                /\ infra_inflight = {}
                /\ infra_log[Len(infra_log)].activity = "terraform_destroy"
                /\ infra_log[Len(infra_log)].ev \in {"ok", "failed"}

C3_Witness ==
    IsInfra /\ InfraLogged(Event("ok", "validate_infra", <<FALSE>>))
    /\ infra_status = "FAILED"
    /\ InfraLogged(Event("ok", "terraform_destroy", <<>>))

\* C4 (as claimed): once apply failed on its third attempt, the saga goes through
\* DESTROYING and invokes teardown before it settles in FAILED.
C4_ApplyFailureTearsDown ==
    (IsInfra /\ InfraLogged(Event("failed", "terraform_apply", <<3>>))
       /\ infra_status = "FAILED") =>
        /\ \E i \in 1..Len(infra_trace) : infra_trace[i] = "DESTROYING"
        /\ \E i \in 1..Len(infra_log) :
             infra_log[i].ev = "invoke" /\ infra_log[i].activity = "terraform_destroy"

\* The error that made the saga compensate: what ended right before the
\* teardown was invoked.
InfraOriginalFailure ==
    LET i == CHOOSE j \in 1..Len(infra_log) :
                 infra_log[j].ev = "invoke"
                 /\ infra_log[j].activity = "terraform_destroy"
        prev == infra_log[i - 1]
    IN  IF prev.ev = "failed"
        THEN ActivityError(prev.activity)
        ELSE RuntimeError(infra_output.vm_name \o " failed health check")

\* C5: teardown is attempted at most 3 times; once it failed for good the
\* saga has settled in FAILED and the error the caller gets is the failure
\* that triggered the compensation, not the teardown's.
C5_TeardownFailureBoundedNotMasking ==
    IsInfra =>
        /\ (infra_pc = "terraform_destroy" => infra_attempt \in 1..3)
        /\ \A i \in 1..Len(infra_log) :
             (infra_log[i].ev = "failed"
              /\ infra_log[i].activity = "terraform_destroy")
               => /\ infra_log[i].args[1] <= 3
                  /\ infra_status = "FAILED"
                  /\ infra_pc = "done"
                  /\ infra_result = [kind |-> "raised",
                                     error |-> InfraOriginalFailure]
                  /\ infra_result.error # ActivityError("terraform_destroy")

C5_Witness ==
    IsInfra /\ InfraLogged(Event("failed", "terraform_destroy", <<3>>))
    /\ infra_status = "FAILED"
    /\ infra_result.error = ActivityError("validate_infra")

\* C6: in every state, output().ready is true exactly when the status is
\* READY.
C6_ReadyIffStatusReady ==
    IsInfra => (get_infra_output.ready <=> infra_get_status = "READY")

C6_Witness ==
    IsInfra /\ infra_get_status = "READY" /\ get_infra_output.ready

\* C7 (as claimed): while the status is not READY, output() is the
\* empty/not-ready shape, without VM fields.
C7_NotReadyShapeIsEmpty ==
    (IsInfra /\ infra_status # "READY") =>
        get_infra_output = [status |-> infra_status, ready |-> FALSE]

\* C7 (amended): while the status is not READY, output().ready is false;
\* output() is the empty shape until apply has returned, and from then on
\* (VALIDATING, DESTROYING, FAILED) it carries the VM fields of apply's
\* output.
C7_NotReadyFieldsFollowApply ==
    (IsInfra /\ infra_status # "READY") =>
        /\ get_infra_output.ready = FALSE
        /\ IF InfraLogged(Event("ok", "terraform_apply", <<>>))
           THEN /\ infra_status \in {"VALIDATING", "DESTROYING", "FAILED"}
                /\ DOMAIN get_infra_output =
                     {"status", "ready", "vm_public_ip", "vm_name",
                      "admin_username", "resource_group"}
                /\ get_infra_output.vm_public_ip = "20.185.72.14"
                /\ get_infra_output.vm_name =
                     "vm-" \o infra_input.project_name \o "-"
                           \o infra_input.environment
                /\ get_infra_output.admin_username = infra_input.admin_username
           ELSE get_infra_output = [status |-> infra_status, ready |-> FALSE]

C7_Witness ==
    IsInfra /\ infra_status = "FAILED"
    /\ get_infra_output.ready = FALSE
    /\ "vm_public_ip" \in DOMAIN get_infra_output

InfraHappyPath == <<"PENDING", "INITIALIZING", "PLANNING", "PROVISIONING",
                    "VALIDATING", "READY">>

InfraTerminal == {"READY", "FAILED"}

\* A status change the claim allows: one step along the happy path, or from
\* a status that is not terminal to FAILED, directly or through DESTROYING.
InfraForward(a, b) ==
    /\ a \notin InfraTerminal
    /\ \/ \E i \in 1..(Len(InfraHappyPath) - 1) :
             InfraHappyPath[i] = a /\ InfraHappyPath[i + 1] = b
       \/ b = "FAILED"
       \/ b = "DESTROYING" /\ a # "DESTROYING"

\* C20: every value assigned to the infra status follows the previous one
\* one step forward on PENDING -> INITIALIZING -> PLANNING -> PROVISIONING ->
\* VALIDATING -> READY, or goes from a non-terminal status to FAILED
\* (possibly via DESTROYING); nothing is assigned after READY or FAILED.
C20_InfraStatusOnlyForward ==
    IsInfra =>
        /\ infra_trace[1] = "PENDING"
        /\ infra_status = infra_trace[Len(infra_trace)]
        /\ \A i \in 1..(Len(infra_trace) - 1) :
              InfraForward(infra_trace[i], infra_trace[i + 1])
        /\ infra_status \in InfraTerminal <=> infra_pc = "done"

C20_Witness ==
    /\ IsInfra /\ infra_pc = "done"
    /\ infra_trace = <<"PENDING", "INITIALIZING", "PLANNING", "PROVISIONING",
                       "VALIDATING", "DESTROYING", "FAILED">>

\* run() has ended in a terminal status and handed its caller the output
\* (READY) or the error that triggered the failure (FAILED).
InfraDelivered ==
    /\ infra_pc = "done"
    /\ infra_inflight = {}
    /\ \/ /\ infra_status = "READY"
          /\ infra_result = [kind |-> "returned", value |-> infra_output]
          /\ infra_output # None
       \/ /\ infra_status = "FAILED"
          /\ infra_result = [kind |-> "raised", error |-> infra_exc]
          /\ infra_exc # None

\* C21: when every attempt ends and each activity has at most 3 attempts,
\* a started infra run leads to READY or FAILED with the output or the
\* triggering error delivered; no status before that, DESTROYING included,
\* lasts forever.
C21_InfraRunTerminates ==
    /\ (IsInfra /\ infra_pc # "start") ~> InfraDelivered
    /\ \A s \in InfraStatus \ (InfraTerminal \cup {"PENDING"}) :
         (IsInfra /\ infra_status = s) ~> (infra_status \in InfraTerminal)

C21_Witness ==
    /\ IsInfra /\ InfraDelivered /\ infra_status = "FAILED"
    /\ InfraLogged(Event("failed", "terraform_destroy", <<3>>))
    /\ InfraLogged(Event("failed", "validate_infra", <<3>>))
    /\ infra_result.error = ActivityError("validate_infra")

\* Positions of the log at which terraform_destroy was invoked.
InfraTeardownInvocations ==
    {i \in 1..Len(infra_log) :
       infra_log[i].ev = "invoke" /\ infra_log[i].activity = "terraform_destroy"}

\* Positions of the status history at which DESTROYING was assigned.
InfraDestroyingEntries ==
    {i \in 1..Len(infra_trace) : infra_trace[i] = "DESTROYING"}

\* The run failed for good in init or in plan.
InfraFailedBeforeApply ==
    \E i \in 1..Len(infra_log) :
       /\ infra_log[i].ev = "failed"
       /\ infra_log[i].activity \in {"terraform_init", "terraform_plan"}

IsCicd == workflow = "CICDPipelineWorkflow"

\* The log of the current cycle holds the event.
CicdLogged(e) == \E i \in 1..Len(cicd_log) : cicd_log[i] = e

\* build, test (passed), deploy and the success notify of the current
\* cycle all returned.
CicdCycleSucceeded ==
    /\ CicdLogged(Event("ok", "checkout_and_build", <<>>))
    /\ CicdLogged(Event("ok", "run_tests", <<TRUE>>))
    /\ \E i \in 3..Len(cicd_log) :
         /\ cicd_log[i - 2] = Event("ok", "deploy_artifact", <<>>)
         /\ cicd_log[i - 1].ev = "invoke" /\ cicd_log[i - 1].activity = "notify"
         /\ cicd_log[i] = Event("ok", "notify", <<>>)

\* The input the current cycle was started with: what build was invoked on.
CicdCycleInput == cicd_log[1].args[1]

\* run() was started with an empty target host.
CicdStartedWithoutHost ==
    IsCicd /\ run_input # None /\ run_input.target_host = ""

\* C8: after a cycle whose build, test, deploy and success notify all
\* succeeded the status is COMPLETED and deployDetails() reports healthy and
\* the non-empty application_url "http://<that cycle's target host>:8080".
C8_SuccessfulCycleIsCompleted ==
    (IsCicd /\ CicdCycleSucceeded) =>
        /\ cicd_pc = "wait"
        /\ cicd_get_status = "COMPLETED"
        /\ get_deploy_details.healthy = TRUE
        /\ get_deploy_details.application_url # ""
        /\ CicdCycleInput.target_host # ""
        /\ get_deploy_details.application_url =
             "http://" \o CicdCycleInput.target_host \o ":8080"

C8_Witness ==
    IsCicd /\ CicdCycleSucceeded /\ cicd_cycle = 2
    /\ run_input.target_host = "20.185.72.14"
    /\ get_deploy_details.application_url = "http://1.2.3.4:8080"
    /\ get_deploy_details.status = "COMPLETED"

\* C9: a run started with an empty target host has ended by raising, with
\* no activity invoked, none in flight, no attempt made and no cycle begun.
C9_EmptyHostFailsFast ==
    CicdStartedWithoutHost =>
        /\ cicd_pc = "done"
        /\ cicd_outcome.kind = "raised"
        /\ cicd_outcome.error.kind = "ValueError"
        /\ cicd_log = <<>>
        /\ cicd_inflight = {}
        /\ cicd_attempt = 0
        /\ cicd_cycle = 0

C9_Witness ==
    CicdStartedWithoutHost /\ cicd_pc = "done" /\ cicd_outcome # None

\* C10 (as claimed): after a start with an empty target host the status
\* query returns FAILED.
C10_EmptyHostEndsFailed ==
    CicdStartedWithoutHost => cicd_get_status = "FAILED"

\* run_tests of the current cycle reported failure: it returned false, or
\* its failure was raised at the await.
CicdTestsFailed ==
    \/ CicdLogged(Event("ok", "run_tests", <<FALSE>>))
    \/ CicdLogged(Event("failed", "run_tests", <<>>))

\* The current cycle is past its rollback: the failure notify is awaited or
\* the cycle has raised.
CicdCompensationSettled == cicd_pc \in {"notify_failure", "done"}

\* C11: in a cycle whose test step reported failure (false, or failed out
\* of retries) deploy_artifact is never invoked, and once rollback is over
\* the status is ROLLED_BACK if rollback returned and FAILED if it failed.
C11_FailedTestsNeverDeploy ==
    (IsCicd /\ CicdTestsFailed) =>
        /\ \A i \in 1..Len(cicd_log) : cicd_log[i].activity # "deploy_artifact"
        /\ cicd_result = None \/ cicd_cycle > 1
        /\ cicd_pc \in {"rollback", "notify_failure", "done"}
        /\ cicd_pc = "rollback" => cicd_status = "FAILED"
        /\ CicdCompensationSettled =>
             /\ CicdLogged(Event("ok", "rollback", <<>>))
                  => cicd_status = "ROLLED_BACK"
             /\ CicdLogged(Event("failed", "rollback", <<>>))
                  => cicd_status = "FAILED"
             /\ CicdLogged(Event("ok", "rollback", <<>>))
                  \/ CicdLogged(Event("failed", "rollback", <<>>))

C11_Witness ==
    /\ IsCicd /\ cicd_pc = "done"
    /\ CicdLogged(Event("failed", "run_tests", <<>>))
    /\ CicdLogged(Event("failed", "rollback", <<>>))
    /\ cicd_status = "FAILED"

\* run() leaves wait_condition in this step.
CicdWakes == IsCicd /\ cicd_pc = "wait" /\ cicd_pc' # "wait"

\* The commit the build of the current cycle reports.
CicdCycleCommit ==
    IF CicdCycleInput.commit_sha # "" THEN CicdCycleInput.commit_sha
                                      ELSE uuid4_hex8(cicd_cycle)

\* C12: the step that consumes a redeploy signal after COMPLETED takes the
\* status from COMPLETED to BUILDING and invokes build on the signalled
\* input (its commit; its target host when it names one); and a redeploy
\* cycle that succeeded is COMPLETED with deployDetails() reporting the
\* artifact built in that cycle on the cycle's host.
C12_RedeployRunsSignalledCycle ==
    [][ /\ CicdWakes =>
             /\ cicd_status = "COMPLETED" /\ cicd_status' = "BUILDING"
             /\ cicd_trace' = <<"COMPLETED", "BUILDING">>
             /\ cicd_pc' = "checkout_and_build"
             /\ cicd_cycle' = cicd_cycle + 1
             /\ cicd_log' = <<Event("invoke", "checkout_and_build",
                                    <<CicdCycleInput'>>)>>
             /\ CicdCycleInput'.commit_sha = last_signal.input.commit_sha
             /\ last_signal.input.target_host # ""
                  => CicdCycleInput' = last_signal.input
        /\ (IsCicd /\ cicd_cycle' > 1 /\ CicdCycleSucceeded') =>
             /\ cicd_status' = "COMPLETED"
             /\ get_deploy_details'.status = "COMPLETED"
             /\ get_deploy_details'.artifact =
                  "app-" \o CicdCycleCommit' \o ".tar.gz"
             /\ get_deploy_details'.application_url =
                  "http://" \o CicdCycleInput'.target_host \o ":8080"
      ]_vars

C12_Witness ==
    /\ IsCicd /\ cicd_cycle = 2 /\ CicdCycleSucceeded
    /\ run_input.commit_sha = "4f2a9c1e"
    /\ last_signal.input = DeployInput("", "20.185.72.14", "deploy")
    /\ get_deploy_details.artifact = "app-00000002.tar.gz"
    /\ get_deploy_details.status = "COMPLETED"

\* The signal being consumed named the field.
SignalSuppliesHost ==
    last_signal.input.target_host # DeployInput_target_host_default
SignalSuppliesAdmin ==
    last_signal.input.admin_username # DeployInput_admin_username_default

\* C13 (as claimed): the cycle started by a signal uses each of target host
\* and admin account from the signal when the signal supplied that field,
\* and the start input's target host when the signal omitted the host.
C13_FallbackPerField ==
    [][ CicdWakes =>
          /\ SignalSuppliesHost
               => pipeline_input'.target_host = last_signal.input.target_host
          /\ ~SignalSuppliesHost
               => pipeline_input'.target_host = run_input.target_host
          /\ SignalSuppliesAdmin
               => pipeline_input'.admin_username
                    = last_signal.input.admin_username
      ]_vars

\* C13 (amended): the cycle started by a signal runs on the signal's input
\* as delivered when the signal names a target host; when it does not,
\* both target host and admin account are the start input's, whatever
\* admin account the signal carried; deploy is invoked with that pair.
C13_FallbackKeyedOnHost ==
    [][ /\ CicdWakes =>
             /\ pipeline_input' =
                  IF SignalSuppliesHost
                  THEN last_signal.input
                  ELSE [last_signal.input EXCEPT
                          !.target_host = run_input.target_host,
                          !.admin_username = run_input.admin_username]
             /\ CicdCycleInput' = pipeline_input'
        /\ (IsCicd /\ cicd_pc' = "deploy_artifact") =>
             /\ CicdAwaitedArgs'[2] = pipeline_input'.target_host
             /\ CicdAwaitedArgs'[3] = pipeline_input'.admin_username
      ]_vars

C13_Witness ==
    /\ IsCicd /\ cicd_cycle = 2 /\ cicd_pc = "deploy_artifact"
    /\ ~redeploy_requested
    /\ last_signal.input = DeployInput("4f2a9c1e", "", "deploy")
    /\ run_input.admin_username = "azureadmin"
    /\ CicdAwaitedArgs[2] = run_input.target_host
    /\ CicdAwaitedArgs[3] = "azureadmin"

\* What run() makes of a signalled input before handing it to _pipeline().
RedeployInputOf(signal) ==
    IF signal.target_host # ""
    THEN signal
    ELSE [signal EXCEPT !.target_host = run_input.target_host,
                        !.admin_username = run_input.admin_username]

\* C14: however many signals arrive before one is consumed, a single
\* request is pending and the slot holds the input of the latest signal;
\* the step that consumes it clears the request and starts exactly one
\* cycle, on the latest signal's input; no cycle starts without a pending
\* request, so an overwritten input is never run.
C14_LastSignalWins ==
    [][ IsCicd =>
          /\ redeploy_requested' => next_input' = last_signal'.input
          /\ CicdWakes =>
               /\ redeploy_requested /\ ~redeploy_requested'
               /\ cicd_cycle' = cicd_cycle + 1
               /\ pipeline_input' = RedeployInputOf(last_signal.input)
               /\ CicdCycleInput' = pipeline_input'
          /\ (cicd_cycle' # cicd_cycle /\ cicd_cycle > 0) => CicdWakes
          /\ (~redeploy_requested' /\ cicd_cycle' > 1) =>
               CicdCycleInput' = RedeployInputOf(last_signal'.input)
      ]_vars

C14_Witness ==
    /\ IsCicd /\ cicd_cycle = 2 /\ ~redeploy_requested
    /\ last_signal.overwrote
    /\ last_signal.input = DeployInput("4f2a9c1e", "1.2.3.4", "deploy")
    /\ run_input = DeployInput("", "20.185.72.14", "azureadmin")
    /\ CicdCycleInput = last_signal.input
    /\ cicd_pc = "run_tests"

\* C15: a request pending while run() is parked in wait_condition leads to
\* the wake-up: a redeploy cycle just begun (status BUILDING, build awaited)
\* with the request cleared, for every cycle the model tracks; and run()
\* leaves wait_condition only with a delivered signal pending, which that
\* step clears.
C15_ParkedSignalIsConsumed ==
    /\ (/\ IsCicd /\ cicd_pc = "wait" /\ redeploy_requested
         /\ cicd_cycle < MaxCycles)
          ~> (/\ cicd_cycle > 1
              /\ cicd_pc = "checkout_and_build"
              /\ cicd_status = "BUILDING"
              /\ ~redeploy_requested)
    /\ [][ CicdWakes => (redeploy_requested /\ last_signal # None
                           /\ ~redeploy_requested')
         ]_vars

C15_Witness ==
    /\ IsCicd /\ cicd_cycle = 2 /\ cicd_pc = "checkout_and_build"
    /\ cicd_status = "BUILDING" /\ ~redeploy_requested
    /\ last_signal # None /\ ~last_signal.overwrote
    /\ cicd_trace = <<"COMPLETED", "BUILDING">>

\* The current cycle is a redeploy cycle that failed: its except block ran.
CicdRedeployCycleFailed == IsCicd /\ cicd_cycle > 1 /\ cicd_exc # None

\* C16 (as claimed): a redeploy cycle that failed never ends run(): once
\* its compensation is over the saga is parked on the signal again.
C16_RedeployFailureKeepsSagaAlive ==
    CicdRedeployCycleFailed => cicd_pc # "done"

\* C17 (as claimed): whenever a cycle's failure handling has finished, the
\* error run() raises is the failure of the step that failed, whatever
\* rollback and the failure notify did.
C17_OriginalFailureSurfaced ==
    (IsCicd /\ cicd_pc = "done" /\ cicd_cycle > 0) =>
        /\ cicd_outcome.kind = "raised"
        /\ cicd_outcome.error = cicd_exc

\* The success notify of the current cycle failed for good after deploy
\* had returned.
CicdSuccessNotifyFailed ==
    \E i \in 3..Len(cicd_log) :
       /\ cicd_log[i - 2] = Event("ok", "deploy_artifact", <<>>)
       /\ cicd_log[i - 1].ev = "invoke" /\ cicd_log[i - 1].activity = "notify"
       /\ cicd_log[i] = Event("failed", "notify", <<>>)

\* C18: a failed success notify makes the cycle a failed one: the status
\* goes COMPLETED -> FAILED, rollback is invoked on the cycle's host, the
\* status is ROLLED_BACK once rollback returned (FAILED if it failed), and
\* run() raises a notify failure, the one caught when the failure notify
\* returned.
C18_NotifyFailureFailsCycle ==
    (IsCicd /\ CicdSuccessNotifyFailed) =>
        /\ cicd_exc = ActivityError("notify")
        /\ \E i \in 2..Len(cicd_trace) :
              cicd_trace[i - 1] = "COMPLETED" /\ cicd_trace[i] = "FAILED"
        /\ CicdLogged(Event("invoke", "rollback",
                            <<CicdCycleInput.target_host,
                              CicdCycleInput.admin_username>>))
        /\ cicd_pc \in {"rollback", "notify_failure", "done"}
        /\ cicd_pc = "rollback" => cicd_status = "FAILED"
        /\ CicdCompensationSettled =>
             cicd_status = IF CicdLogged(Event("ok", "rollback", <<>>))
                           THEN "ROLLED_BACK" ELSE "FAILED"
        /\ cicd_pc = "done" =>
             /\ cicd_outcome.kind = "raised"
             /\ cicd_outcome.error.kind = "ActivityError"
             /\ cicd_outcome.error.activity = "notify"
             /\ cicd_log[Len(cicd_log)] = Event("ok", "notify", <<>>)
                  => cicd_outcome.error = cicd_exc

C18_Witness ==
    /\ IsCicd /\ CicdSuccessNotifyFailed /\ cicd_pc = "done"
    /\ cicd_status = "ROLLED_BACK"
    /\ cicd_trace[Len(cicd_trace) - 2] = "COMPLETED"
    /\ cicd_log[Len(cicd_log)] = Event("ok", "notify", <<>>)
    /\ cicd_outcome = [kind |-> "raised", error |-> ActivityError("notify")]

\* C19: in every reachable state each query of the instance can be served
\* (status() and output() of the infra saga, status() and deployDetails()
\* of the pipeline saga), and a step that serves a query changes no field,
\* local or history of either saga: status, output / result, applied flag,
\* pending redeploy request and next-input slot stay as they were.
C19_QueriesAnswerableAndPure ==
    /\ [](/\ IsInfra => (ENABLED InfraQueryStatus /\ ENABLED InfraQueryOutput)
          /\ IsCicd => (ENABLED CicdQueryStatus /\ ENABLED CicdQueryDetails))
    /\ [][ queried' # queried =>
             /\ UNCHANGED <<workflow, infra_vars, cicd_vars>>
             /\ UNCHANGED <<infra_status, infra_output, infra_applied,
                            cicd_status, cicd_result, redeploy_requested,
                            next_input>>
         ]_vars

C19_Witness ==
    /\ IsCicd /\ queried = "cicd.get_deploy_details"
    /\ cicd_pc = "run_tests" /\ cicd_cycle = 2
    /\ redeploy_requested /\ next_input # None
    /\ get_deploy_details.status = "TESTING"
    /\ "artifact" \in DOMAIN get_deploy_details

\* C22: in every cycle, first or redeploy, the cycle's input names a target
\* host, and every deploy_artifact and rollback invocation carries that
\* non-empty host, also when the signal that started the cycle named none.
C22_DeployAndRollbackHaveHost ==
    (IsCicd /\ cicd_cycle > 0) =>
        /\ pipeline_input.target_host # ""
        /\ CicdCycleInput.target_host # ""
        /\ \A i \in 1..Len(cicd_log) :
              /\ (cicd_log[i].ev = "invoke"
                  /\ cicd_log[i].activity = "deploy_artifact")
                   => /\ cicd_log[i].args[2] # ""
                      /\ cicd_log[i].args[2] = CicdCycleInput.target_host
              /\ (cicd_log[i].ev = "invoke"
                  /\ cicd_log[i].activity = "rollback")
                   => /\ cicd_log[i].args[1] # ""
                      /\ cicd_log[i].args[1] = CicdCycleInput.target_host

C22_Witness ==
    /\ IsCicd /\ cicd_cycle = 2 /\ ~redeploy_requested
    /\ last_signal.input.target_host = ""
    /\ cicd_pc = "rollback"
    /\ CicdLogged(Event("ok", "deploy_artifact", <<>>))
    /\ CicdAwaitedArgs[1] = "1.2.3.4"
    /\ run_input.target_host = "1.2.3.4"

\* A signal is delivered in this step.
CicdSignalled == IsCicd /\ last_signal' # last_signal

\* The invocations of the current cycle, in order.
CicdInvoked ==
    SelectSeq(cicd_log, LAMBDA e : e.ev = "invoke")

\* Every activity of the current cycle was invoked on the cycle's input.
CicdCycleKeepsInput ==
    /\ pipeline_input = CicdCycleInput
    /\ \A i \in 1..Len(CicdInvoked) :
         LET e == CicdInvoked[i]
         IN  /\ e.activity \in {"checkout_and_build", "run_tests"}
                  => e.args = <<CicdCycleInput>>
             /\ e.activity = "deploy_artifact"
                  => /\ e.args[2] = CicdCycleInput.target_host
                     /\ e.args[3] = CicdCycleInput.admin_username
             /\ e.activity = "rollback"
                  => e.args = <<CicdCycleInput.target_host,
                                CicdCycleInput.admin_username>>

\* C23: a step that delivers a signal only sets the pending request and the
\* next-input slot: the cycle in flight keeps its input, its position, its
\* log of steps and its status; every activity of a cycle is invoked on the
\* input the cycle began with; and the request starts a new cycle only from
\* the wait reached by a cycle that completed successfully.
C23_SignalLeavesCycleAlone ==
    [][ /\ CicdSignalled =>
             /\ redeploy_requested' /\ next_input' = last_signal'.input
             /\ UNCHANGED <<pipeline_input, run_input, cicd_status, cicd_pc,
                            cicd_attempt, cicd_inflight, cicd_cycle, cicd_log,
                            cicd_trace, cicd_build, cicd_result, cicd_exc,
                            cicd_outcome>>
        /\ (IsCicd /\ cicd_cycle' > 0) => CicdCycleKeepsInput'
        /\ (IsCicd /\ cicd_cycle > 0 /\ cicd_cycle' # cicd_cycle) =>
             /\ cicd_pc = "wait" /\ cicd_status = "COMPLETED"
             /\ CicdCycleSucceeded
             /\ redeploy_requested
      ]_vars

C23_Witness ==
    /\ IsCicd /\ cicd_cycle = 2 /\ cicd_pc = "deploy_artifact"
    /\ redeploy_requested
    /\ next_input = DeployInput("4f2a9c1e", "1.2.3.4", "deploy")
    /\ CicdCycleInput = DeployInput("", "20.185.72.14", "azureadmin")
    /\ CicdAwaitedArgs[2] = "20.185.72.14"
    /\ cicd_status = "DEPLOYING"

====
